---- MODULE Spec2Model ----
(***************************************************************************)
(* Model of accessibility-auto-fixer: the two scanners, the fix generator, *)
(* the two fix applicators, the file cache and the scan orchestrator.      *)
(*                                                                         *)
(* A file's text is modelled by what the parsers see of it:                *)
(*   - a markup document is the attribute list of its <html> root and the  *)
(*     elements of its body in document order, plus the flag `norm` that   *)
(*     says whether the text is byte-for-byte what the tree serialises to; *)
(*   - a script file is its JSX elements in traversal order with the line  *)
(*     each opening tag starts on, the flag `norm` (the text is what the   *)
(*     code generator prints) and `parse`, which says which parsers        *)
(*     accept the text.                                                    *)
(* An attribute list is a sequence of <<name, value>> pairs.                *)
(***************************************************************************)
EXTENDS Integers, Sequences, FiniteSets, TLC

VARIABLES
    doc, issues, out1, out2, issues2, fpc,          \* fix pipeline on one text
    cache, disk, enabled, now, lastSet, lastOp,     \* FileCache
    fsys, config, files, idx, results, spc, cur,    \* orchestrator
    run, started, finished,                         \* ... its progress
    failed, applied, writes, scanLog, runConfig,    \* ... its history
    setCalls,                                       \* ... setConfig calls made
    genConfig, genIssues, genOut, genAgain, gpc,    \* fix generator on its own
    caller, exitCode,                               \* command-line tool
    clock, mounted, options, debounceRef,           \* useAccessibility hook
    intervalRef, mountTimers, calls, checks,        \* ... its timers and history
    renders                                         \* ... renders with new options

fixVars   == <<doc, issues, out1, out2, issues2, fpc>>
cacheVars == <<cache, disk, enabled, now, lastSet, lastOp>>
scanVars  == <<fsys, config, files, idx, results, spc, cur, run, started,
               finished, failed, applied, writes, scanLog, runConfig, setCalls>>
genVars   == <<genConfig, genIssues, genOut, genAgain, gpc>>
cliVars   == <<caller, exitCode>>
hookVars  == <<clock, mounted, options, debounceRef, intervalRef, mountTimers,
               calls, checks, renders>>
vars      == <<fixVars, cacheVars, scanVars, genVars, cliVars, hookVars>>

(***************************************************************************)
(* Bounds                                                                  *)
(***************************************************************************)
MaxElems == 2       \* elements per document in the fix pipeline
MaxOutline == 3     \* elements per document made of headings and id carriers
MaxProbes == 1      \* elements per document made of role carriers and form controls
MaxLine == 2        \* source lines of a script file
MaxTime == 2        \* clock ticks in the cache model
MaxFiles == 2       \* files matched by one scanFiles call
MaxScanElems == 1   \* elements per file given to the orchestrator
MaxRuns == 2        \* scanFiles calls on one AccessibilityAutoFixer
MaxGenIssues == 2   \* issues handed to one generateFixes call
MaxSetConfig == 1   \* setConfig calls on one AccessibilityAutoFixer
MaxClock == 8       \* steps of the clock the hook is followed for
MaxCalls == 3       \* checkAccessibility calls on one mounted hook
MaxRenders == 1     \* renders of the component with changed options

None == "none"

(***************************************************************************)
(* Generic helpers                                                         *)
(***************************************************************************)
RECURSIVE Flatten(_)
Flatten(ss) == IF ss = <<>> THEN <<>> ELSE Head(ss) \o Flatten(Tail(ss))

RECURSIVE CountIf(_, _)
CountIf(s, T) ==
    IF s = <<>> THEN 0
    ELSE (IF Head(s).type \in T THEN 1 ELSE 0) + CountIf(Tail(s), T)

SeqsUpTo(S, n) == UNION {[1..k -> S] : k \in 0..n}

(***************************************************************************)
(* Attributes                                                              *)
(***************************************************************************)
HasAttr(attrs, name) == \E k \in 1..Len(attrs) : attrs[k][1] = name

\* the value of the first attribute of that name
GetAttr(attrs, name) ==
    IF HasAttr(attrs, name)
    THEN attrs[CHOOSE k \in 1..Len(attrs) :
                  attrs[k][1] = name /\ \A m \in 1..(k - 1) : attrs[m][1] # name][2]
    ELSE None

\* attributes.push(attr); element.setAttribute(name, value) on an element
\* that lacks the attribute appends it likewise
AddAttr(attrs, name, value) == Append(attrs, <<name, value>>)

\* JSX attribute values that are expression containers, not string literals
ExprValues == {"{handleClick}", "{id}"}
IsStringLiteral(v) == v # None /\ v \notin ExprValues

\* id values that break the attribute selector label[for="<id>"]
QuotedIds == {"a\"b"}

(***************************************************************************)
(* Issue / Fix model (types.ts)                                            *)
(***************************************************************************)
\* the absent fix of an issue (fix?: Fix left undefined)
NoFix == [type |-> "none"]

\* An issue as a scanner pushes it: no fix attached yet.  `node` is the
\* element the issue was raised on (its index in the document, 0 for the
\* <html> root or <body>).
Issue(type, severity, line, node) ==
    [type |-> type, severity |-> severity, line |-> line, node |-> node,
     fix |-> NoFix]

ValidRoles ==
    {"alert", "alertdialog", "application", "article", "banner", "button",
     "cell", "checkbox", "columnheader", "combobox", "complementary",
     "contentinfo", "definition", "dialog", "directory", "document", "feed",
     "figure", "form", "grid", "gridcell", "group", "heading", "img", "link",
     "list", "listbox", "listitem", "log", "main", "marquee", "math", "menu",
     "menubar", "menuitem", "menuitemcheckbox", "menuitemradio", "navigation",
     "none", "note", "option", "presentation", "progressbar", "radio",
     "radiogroup", "region", "row", "rowgroup", "rowheader", "scrollbar",
     "search", "searchbox", "separator", "slider", "spinbutton", "status",
     "switch", "tab", "table", "tablist", "tabpanel", "term", "textbox",
     "timer", "toolbar", "tooltip", "tree", "treegrid", "treeitem"}

HeadingTags == {"h1", "h2", "h3", "h4", "h5", "h6"}
HeadingLevel(tag) ==
    CASE tag = "h1" -> 1 [] tag = "h2" -> 2 [] tag = "h3" -> 3
      [] tag = "h4" -> 4 [] tag = "h5" -> 5 [] tag = "h6" -> 6

FormTags == {"input", "textarea", "select"}

(***************************************************************************)
(* HTMLScanner (scanner/htmlScanner.ts)                                    *)
(***************************************************************************)
\* getLineAndColumn locates the node's text content in the serialised tree;
\* for a node without text content indexOf("") is 0, that is line 1.  The
\* markup applicator never reads the position, so every markup issue is
\* placed on line 1.
HtmlIssue(type, severity, node) == Issue(type, severity, 1, node)

checkMissingAltText(d) ==
    Flatten([i \in 1..Len(d.els) |->
        IF d.els[i].tag = "img" /\ ~HasAttr(d.els[i].attrs, "alt")
        THEN <<HtmlIssue("missing-alt-text", "error", i)>> ELSE <<>>])

HtmlNamed(e) == HasAttr(e.attrs, "aria-label") \/ HasAttr(e.attrs, "aria-labelledby")

checkMissingAriaLabels(d) ==
    Flatten([i \in 1..Len(d.els) |->
        LET e == d.els[i] IN
        IF /\ (e.tag = "button" \/ GetAttr(e.attrs, "role") = "button")
           /\ ~HtmlNamed(e)
           /\ e.text = ""
        THEN <<HtmlIssue("missing-aria-label", "warning", i)>> ELSE <<>>])

\* document.querySelector(`label[for="${id}"]`)
HasLabelFor(d, id) ==
    \E j \in 1..Len(d.els) :
        d.els[j].tag = "label" /\ GetAttr(d.els[j].attrs, "for") = id

\* the selector built from an id holding a double quote is a syntax error
FormLabelsThrows(d) ==
    \E i \in 1..Len(d.els) :
        d.els[i].tag \in FormTags /\ GetAttr(d.els[i].attrs, "id") \in QuotedIds

checkMissingFormLabels(d) ==
    Flatten([i \in 1..Len(d.els) |->
        LET e  == d.els[i]
            id == GetAttr(e.attrs, "id")
            hasLabel == id # None /\ id # "" /\ HasLabelFor(d, id)
        IN  IF /\ e.tag \in FormTags
               /\ ~hasLabel
               /\ ~HtmlNamed(e)
               /\ GetAttr(e.attrs, "type") # "hidden"
            THEN <<HtmlIssue("missing-form-label", "error", i)>> ELSE <<>>])

checkMissingButtonType(d) ==
    Flatten([i \in 1..Len(d.els) |->
        IF d.els[i].tag = "button" /\ ~HasAttr(d.els[i].attrs, "type")
        THEN <<HtmlIssue("missing-button-type", "warning", i)>> ELSE <<>>])

\* elements carrying a non-empty id, and the ids in order of first occurrence
HtmlId(d, i) == GetAttr(d.els[i].attrs, "id")
HasHtmlId(d, i) == HtmlId(d, i) # None /\ HtmlId(d, i) # ""
SharesId(d, i) ==
    \E j \in 1..Len(d.els) : j # i /\ HasHtmlId(d, j) /\ HtmlId(d, j) = HtmlId(d, i)
FirstWithId(d, i) ==
    \A j \in 1..(i - 1) : ~(HasHtmlId(d, j) /\ HtmlId(d, j) = HtmlId(d, i))

\* a check that leaves out the first element carrying the id
checkDuplicateIdsLaterOnly(d) ==
    Flatten([i \in 1..Len(d.els) |->
        IF HasHtmlId(d, i) /\ FirstWithId(d, i) /\ SharesId(d, i)
        THEN Flatten([j \in 1..Len(d.els) |->
                IF j # i /\ HasHtmlId(d, j) /\ HtmlId(d, j) = HtmlId(d, i)
                THEN <<HtmlIssue("duplicate-id", "error", j)>> ELSE <<>>])
        ELSE <<>>])

checkDuplicateIds(d) ==
    Flatten([i \in 1..Len(d.els) |->
        IF HasHtmlId(d, i) /\ FirstWithId(d, i) /\ SharesId(d, i)
        THEN Flatten([j \in 1..Len(d.els) |->
                IF HasHtmlId(d, j) /\ HtmlId(d, j) = HtmlId(d, i)
                THEN <<HtmlIssue("duplicate-id", "error", j)>> ELSE <<>>])
        ELSE <<>>])

checkMissingLang(d) ==
    IF ~HasAttr(d.root, "lang")
    THEN <<HtmlIssue("missing-lang-attribute", "error", 0)>> ELSE <<>>

\* previousLevel before heading i: the level of the nearest heading before it
RECURSIVE PreviousLevel(_, _)
PreviousLevel(d, i) ==
    IF i <= 1 THEN 0
    ELSE IF d.els[i - 1].tag \in HeadingTags THEN HeadingLevel(d.els[i - 1].tag)
    ELSE PreviousLevel(d, i - 1)

\* a check that compares the first heading with level 0
checkHeadingHierarchyFromStart(d) ==
    Flatten([i \in 1..Len(d.els) |->
        IF /\ d.els[i].tag \in HeadingTags
           /\ HeadingLevel(d.els[i].tag) > PreviousLevel(d, i) + 1
        THEN <<HtmlIssue("missing-heading-hierarchy", "warning", i)>> ELSE <<>>])

checkHeadingHierarchy(d) ==
    Flatten([i \in 1..Len(d.els) |->
        IF /\ d.els[i].tag \in HeadingTags
           /\ HeadingLevel(d.els[i].tag) > PreviousLevel(d, i) + 1
           /\ PreviousLevel(d, i) > 0
        THEN <<HtmlIssue("missing-heading-hierarchy", "warning", i)>> ELSE <<>>])

HasLandmark(d, tag, role) ==
    \E i \in 1..Len(d.els) :
        d.els[i].tag = tag \/ GetAttr(d.els[i].attrs, "role") = role

checkMissingLandmarks(d) ==
    (IF ~HasLandmark(d, "main", "main")
     THEN <<HtmlIssue("missing-landmark", "info", 0)>> ELSE <<>>)
    \o
    (IF /\ ~HasLandmark(d, "nav", "navigation")
        /\ Cardinality({i \in 1..Len(d.els) : d.els[i].tag = "a"}) > 3
     THEN <<HtmlIssue("missing-landmark", "info", 0)>> ELSE <<>>)

checkInvalidRoles(d) ==
    Flatten([i \in 1..Len(d.els) |->
        LET role == GetAttr(d.els[i].attrs, "role") IN
        IF role # None /\ role # "" /\ role \notin ValidRoles
        THEN <<HtmlIssue("invalid-role", "error", i)>> ELSE <<>>])

\* HTMLScanner.scan: the nine checks in their fixed order
HtmlScan(d) ==
    checkMissingAltText(d) \o checkMissingAriaLabels(d)
      \o checkMissingFormLabels(d) \o checkMissingButtonType(d)
      \o checkDuplicateIds(d) \o checkMissingLang(d)
      \o checkHeadingHierarchy(d) \o checkMissingLandmarks(d)
      \o checkInvalidRoles(d)


(***************************************************************************)
(* JSXScanner (scanner/jsxScanner.ts)                                      *)
(***************************************************************************)
\* A JSX element: tag, attributes, `text` (its literal text children,
\* trimmed and concatenated), `nested` (a child element holds literal
\* text), `inLabel` (an ancestor element is a <label>) and the line its
\* opening tag starts on.
ScannerParses(d) == d.parse \in {"ok", "decorators"}   \* plugins jsx, typescript, decorators-legacy
TransformerParses(d) == d.parse = "ok"                 \* plugins jsx, typescript

JsxIssue(type, severity, e, i) == Issue(type, severity, e.line, i)

hasTextContent(e) == e.text # "" \/ e.nested

hasClickHandler(e) ==
    \/ HasAttr(e.attrs, "onClick")
    \/ HasAttr(e.attrs, "onMouseDown")
    \/ HasAttr(e.attrs, "onMouseUp")

\* `path.parent` is the parent node, not a path: it has neither `.node` nor
\* `.parent`, so the loop ends after one round without finding a label.
findLabelInScope(e) == FALSE

\* the stub returns an empty list whatever the id
findDuplicateIds(e, idValue) == <<>>

checkImageAlt(e, i) ==
    IF e.tag = "img" /\ ~HasAttr(e.attrs, "alt")
    THEN <<JsxIssue("missing-alt-text", "error", e, i)>> ELSE <<>>

checkAriaLabel(e, i) ==
    LET roleAttr == GetAttr(e.attrs, "role")
        role == IF IsStringLiteral(roleAttr) THEN roleAttr ELSE None
        isInteractive ==
            \/ e.tag = "button"
            \/ e.tag = "a"
            \/ role = "button"
            \/ (e.tag \in {"div", "span"} /\ hasClickHandler(e))
    IN  IF /\ e.tag \in {"button", "div", "span", "a"}
           /\ isInteractive
           /\ ~HasAttr(e.attrs, "aria-label")
           /\ ~HasAttr(e.attrs, "aria-labelledby")
           /\ ~hasTextContent(e)
        THEN <<JsxIssue("missing-aria-label", "warning", e, i)>> ELSE <<>>

checkButtonType(e, i) ==
    IF e.tag = "button" /\ ~HasAttr(e.attrs, "type")
    THEN <<JsxIssue("missing-button-type", "warning", e, i)>> ELSE <<>>

checkFormLabel(e, i) ==
    IF /\ e.tag \in FormTags
       /\ ~HasAttr(e.attrs, "aria-label")
       /\ ~HasAttr(e.attrs, "aria-labelledby")
       /\ ~findLabelInScope(e)
    THEN <<JsxIssue("missing-form-label", "error", e, i)>> ELSE <<>>

checkDuplicateId(e, i) ==
    LET id == GetAttr(e.attrs, "id") IN
    IF IsStringLiteral(id) /\ Len(findDuplicateIds(e, id)) > 1
    THEN <<JsxIssue("duplicate-id", "error", e, i)>> ELSE <<>>

\* only tags h1..h6 reach the check, and none of them has a level above 6
checkJsxHeadingHierarchy(e, i) ==
    IF e.tag \in HeadingTags /\ HeadingLevel(e.tag) > 6
    THEN <<JsxIssue("missing-heading-hierarchy", "warning", e, i)>> ELSE <<>>

checkInvalidRole(e, i) ==
    LET role == GetAttr(e.attrs, "role") IN
    IF IsStringLiteral(role) /\ role \notin ValidRoles
    THEN <<JsxIssue("invalid-role", "error", e, i)>> ELSE <<>>

checkJSXElement(e, i) ==
    checkImageAlt(e, i) \o checkAriaLabel(e, i) \o checkButtonType(e, i)
      \o checkFormLabel(e, i) \o checkDuplicateId(e, i)
      \o checkJsxHeadingHierarchy(e, i) \o checkInvalidRole(e, i)

\* JSXScanner.scan: a text the parser rejects yields no issue
JsxScan(d) ==
    IF ~ScannerParses(d) THEN <<>>
    ELSE Flatten([i \in 1..Len(d.els) |-> checkJSXElement(d.els[i], i)])


(***************************************************************************)
(* AutoFixer: fix generator (fixer/autoFixer.ts)                           *)
(***************************************************************************)
\* config.autoFix of the AutoFixer: a record holding the toggles that were
\* given; `new AutoFixer()` leaves it empty.
DefaultFixerConfig == <<>>

\* autoFixConfig.<toggle> !== false
NotFalse(cfg, toggle) == ~(toggle \in DOMAIN cfg /\ cfg[toggle] = FALSE)

AddAttributeFix(description, code, issue) ==
    [type |-> "add-attribute", description |-> description, code |-> code,
     line |-> issue.line]

\* a generator that does not read the toggles
generateFixForIssueAlways(issue, cfg) ==
    CASE issue.type = "missing-alt-text" ->
            AddAttributeFix("Add alt attribute to image", "alt=\"\"", issue)
      [] issue.type = "missing-button-type" ->
            AddAttributeFix("Add type=\"button\" to button", "type=\"button\"", issue)
      [] issue.type = "missing-lang-attribute" ->
            AddAttributeFix("Add lang attribute to html element", "lang=\"en\"", issue)
      [] issue.type = "missing-aria-label" ->
            AddAttributeFix("Add aria-label attribute",
                            "aria-label=\"Interactive element\"", issue)
      [] issue.type = "missing-form-label" ->
            AddAttributeFix("Add aria-label to input",
                            "aria-label=\"Input field\"", issue)
      [] OTHER -> NoFix

generateFixForIssue(issue, cfg) ==
    CASE issue.type = "missing-alt-text" ->
            AddAttributeFix("Add alt attribute to image", "alt=\"\"", issue)
      [] issue.type = "missing-button-type" ->
            AddAttributeFix("Add type=\"button\" to button", "type=\"button\"", issue)
      [] issue.type = "missing-lang-attribute" ->
            AddAttributeFix("Add lang attribute to html element", "lang=\"en\"", issue)
      [] issue.type = "missing-aria-label" ->
            IF NotFalse(cfg, "generateAriaLabels")
            THEN AddAttributeFix("Add aria-label attribute",
                                 "aria-label=\"Interactive element\"", issue)
            ELSE NoFix
      [] issue.type = "missing-form-label" ->
            IF NotFalse(cfg, "wrapInputsWithLabels")
            THEN AddAttributeFix("Add aria-label to input",
                                 "aria-label=\"Input field\"", issue)
            ELSE NoFix
      [] OTHER -> NoFix

generateFixes(iss, cfg) ==
    [i \in 1..Len(iss) |-> [iss[i] EXCEPT !.fix = generateFixForIssue(iss[i], cfg)]]

HasFix(issue) == issue.fix # NoFix

RECURSIVE Fixable(_)
Fixable(iss) ==
    IF iss = <<>> THEN <<>>
    ELSE (IF HasFix(Head(iss)) THEN <<Head(iss)>> ELSE <<>>) \o Fixable(Tail(iss))

\* the issue types of types.ts
IssueTypes ==
    {"missing-alt-text", "missing-aria-label", "missing-form-label",
     "invalid-aria-attribute", "missing-heading-hierarchy",
     "missing-focus-indicator", "missing-landmark", "color-contrast",
     "missing-button-type", "duplicate-id", "missing-lang-attribute",
     "missing-skip-link", "invalid-role", "missing-keyboard-handler"}

\* config.autoFix as a caller may give it: absent, or with either toggle
\* absent, true or false
AutoFixConfigs ==
    {<<>>}
    \cup {[generateAriaLabels |-> b] : b \in BOOLEAN}
    \cup {[wrapInputsWithLabels |-> b] : b \in BOOLEAN}
    \cup {[generateAriaLabels |-> b, wrapInputsWithLabels |-> c] :
             b \in BOOLEAN, c \in BOOLEAN}

GenIssues == {Issue(type, "error", 1, 1) : type \in IssueTypes}

GenInit ==
    /\ genConfig \in AutoFixConfigs
    /\ genIssues \in SeqsUpTo(GenIssues, MaxGenIssues)
    /\ genOut = <<>>
    /\ genAgain = <<>>
    /\ gpc = "start"

GenIdle ==
    /\ genConfig = DefaultFixerConfig /\ genIssues = <<>> /\ genOut = <<>>
    /\ genAgain = <<>> /\ gpc = "idle"

\* fixer.generateFixes(issues): issues.map builds new issue objects, the
\* argument and this.config are only read
GenGenerate ==
    /\ gpc = "start"
    /\ genOut' = generateFixes(genIssues, genConfig)
    /\ gpc' = "generated"
    /\ UNCHANGED <<genConfig, genIssues, genAgain>>

\* the same call once more on the same AutoFixer
GenRepeat ==
    /\ gpc = "generated"
    /\ genAgain' = generateFixes(genIssues, genConfig)
    /\ gpc' = "repeated"
    /\ UNCHANGED <<genConfig, genIssues, genOut>>

GenNext == GenGenerate \/ GenRepeat

(***************************************************************************)
(* AutoFixer: markup applicator (fixer/autoFixer.ts)                       *)
(***************************************************************************)
AddToAll(els, tag, name, value) ==
    [i \in 1..Len(els) |->
        IF els[i].tag = tag /\ ~HasAttr(els[i].attrs, name)
        THEN [els[i] EXCEPT !.attrs = AddAttr(@, name, value)]
        ELSE els[i]]

\* applyFix: the switch on the issue type handles three types only
applyFix(dom, issue) ==
    CASE issue.type = "missing-alt-text" ->
            [dom EXCEPT !.els = AddToAll(@, "img", "alt", "")]
      [] issue.type = "missing-button-type" ->
            [dom EXCEPT !.els = AddToAll(@, "button", "type", "button")]
      [] issue.type = "missing-lang-attribute" ->
            IF ~HasAttr(dom.root, "lang")
            THEN [dom EXCEPT !.root = AddAttr(@, "lang", "en")]
            ELSE dom
      [] OTHER -> dom

RECURSIVE applyFixes(_, _)
applyFixes(dom, iss) ==
    IF iss = <<>> THEN dom
    ELSE applyFixes(IF HasFix(Head(iss)) THEN applyFix(dom, Head(iss)) ELSE dom,
                    Tail(iss))

\* new HTMLScanner(html).getDOM(): the tree JSDOM builds from the text
ParseHTML(d) == [root |-> d.root, els |-> d.els]

\* dom.serialize(): the text of a tree is always in serialised form
Serialize(dom) == [kind |-> "html", norm |-> TRUE, root |-> dom.root, els |-> dom.els]

fixHTML(html, iss) == Serialize(applyFixes(ParseHTML(html), iss))


(***************************************************************************)
(* ASTTransformer (fixer/astTransformer.ts)                                *)
(***************************************************************************)
\* addAltAttribute without its presence test
addAltAttributeUnguarded(e) == [e EXCEPT !.attrs = AddAttr(@, "alt", "")]

addAltAttribute(e) ==
    IF ~HasAttr(e.attrs, "alt")
    THEN [e EXCEPT !.attrs = AddAttr(@, "alt", "")] ELSE e

addButtonType(e) ==
    IF ~HasAttr(e.attrs, "type")
    THEN [e EXCEPT !.attrs = AddAttr(@, "type", "button")] ELSE e

generateDefaultLabel(tagName) ==
    CASE tagName = "button"   -> "Button"
      [] tagName = "a"        -> "Link"
      [] tagName = "input"    -> "Input field"
      [] tagName = "select"   -> "Select option"
      [] tagName = "textarea" -> "Text area"
      [] tagName = "div"      -> "Interactive element"
      [] OTHER                -> "Interactive element"

\* the trimmed JSXText children of the element, concatenated
extractTextContent(e) == e.text

addAriaLabel(e) ==
    IF ~HasAttr(e.attrs, "aria-label") /\ ~HasAttr(e.attrs, "aria-labelledby")
    THEN LET textContent == extractTextContent(e)
             label == IF textContent # "" THEN textContent
                      ELSE generateDefaultLabel(e.tag)
         IN  [e EXCEPT !.attrs = AddAttr(@, "aria-label", label)]
    ELSE e

addFormLabel(e) ==
    IF /\ ~HasAttr(e.attrs, "aria-label")
       /\ ~HasAttr(e.attrs, "aria-labelledby")
       /\ ~HasAttr(e.attrs, "id")
    THEN [e EXCEPT !.attrs = AddAttr(@, "aria-label", "Input field")]
    ELSE e

applyFixToJSXElement(e, issue) ==
    CASE issue.type = "missing-alt-text"    -> addAltAttribute(e)
      [] issue.type = "missing-button-type" -> addButtonType(e)
      [] issue.type = "missing-aria-label"  -> addAriaLabel(e)
      [] issue.type = "missing-form-label"  -> addFormLabel(e)
      [] OTHER -> e

\* lineIssues.forEach(issue => applyFixToJSXElement(path, issue))
RECURSIVE applyLineIssues(_, _)
applyLineIssues(e, iss) ==
    IF iss = <<>> THEN e
    ELSE applyLineIssues(IF Head(iss).line = e.line
                         THEN applyFixToJSXElement(e, Head(iss)) ELSE e,
                         Tail(iss))

\* the body of the try block: parse, traverse every JSXOpeningElement with
\* the issues of its start line, regenerate with retainLines
TransformBody(code, iss) ==
    IF ~TransformerParses(code) THEN [threw |-> TRUE, code |-> code]
    ELSE [threw |-> FALSE,
          code  |-> [code EXCEPT
                       !.norm = TRUE,
                       !.els = [i \in 1..Len(code.els) |->
                                   applyLineIssues(code.els[i], iss)]]]

\* transformJSX: its own catch returns the original code
transformJSX(code, iss) ==
    LET r == TransformBody(code, iss) IN
    IF r.threw THEN [threw |-> FALSE, code |-> code] ELSE r

(***************************************************************************)
(* AutoFixer: script applicator with textual fallback                      *)
(***************************************************************************)
\* fix.code.split('=')[0] and the rest of the attribute text
CodeName(code) ==
    CASE code = "alt=\"\"" -> "alt"
      [] code = "type=\"button\"" -> "type"
      [] code = "lang=\"en\"" -> "lang"
      [] OTHER -> "aria-label"
CodeValue(code) ==
    CASE code = "alt=\"\"" -> ""
      [] code = "type=\"button\"" -> "button"
      [] code = "lang=\"en\"" -> "en"
      [] code = "aria-label=\"Interactive element\"" -> "Interactive element"
      [] OTHER -> "Input field"

\* String.includes over the strings that occur in the model
Includes(str, sub) == str = sub \/ <<sub, str>> \in {<<"aria-label", "aria-labelledby">>}

\* attributes.includes(name): the attribute text of the tag holds the name
AttrTextIncludes(e, name) ==
    \E k \in 1..Len(e.attrs) :
        Includes(e.attrs[k][1], name) \/ Includes(e.attrs[k][2], name)

\* tags written <tag ... /> in script files: the pattern <(\w+)([^>]*)>
\* takes the slash as attribute text and the splice lands behind it
VoidTags == {"img", "input"}

\* applyJSXFix, case add-attribute: the first opening tag on the line
applyJSXFix(code, issue) ==
    LET onLine == {i \in 1..Len(code.els) : code.els[i].line = issue.line}
    IN  IF onLine = {} THEN code
        ELSE LET i == CHOOSE k \in onLine : \A m \in onLine : k <= m
                 e == code.els[i]
                 name == CodeName(issue.fix.code)
             IN  IF AttrTextIncludes(e, name) THEN code
                 ELSE [code EXCEPT
                         !.els[i].attrs = AddAttr(@, name, CodeValue(issue.fix.code)),
                         !.parse = IF e.tag \in VoidTags THEN "bad" ELSE @]

\* [...issues].sort((a, b) => b.line - a.line): stable, descending
RECURSIVE SortByLineDesc(_)
SortByLineDesc(iss) ==
    IF iss = <<>> THEN <<>>
    ELSE LET top == CHOOSE l \in {iss[i].line : i \in 1..Len(iss)} :
                        \A i \in 1..Len(iss) : iss[i].line <= l
         IN  SelectSeq(iss, LAMBDA x : x.line = top)
               \o SortByLineDesc(SelectSeq(iss, LAMBDA x : x.line # top))

RECURSIVE applyJSXFixes(_, _)
applyJSXFixes(code, iss) ==
    IF iss = <<>> THEN code
    ELSE applyJSXFixes(IF HasFix(Head(iss)) THEN applyJSXFix(code, Head(iss))
                       ELSE code,
                       Tail(iss))

fixJSXLegacy(code, iss) == applyJSXFixes(code, SortByLineDesc(iss))

fixJSX(code, iss) ==
    LET fixableIssues == Fixable(iss) IN
    IF fixableIssues = <<>> THEN code
    ELSE LET r == transformJSX(code, fixableIssues) IN
         IF r.threw THEN fixJSXLegacy(code, iss) ELSE r.code


(***************************************************************************)
(* Texts the model draws its inputs from                                   *)
(***************************************************************************)
HtmlEl(tag, attrs, text) == [tag |-> tag, attrs |-> attrs, text |-> text]

HtmlElems ==
    { HtmlEl("img", << <<"src", "a.png">> >>, ""),
      HtmlEl("img", << <<"src", "a.png">>, <<"alt", "Logo">> >>, ""),
      HtmlEl("button", <<>>, ""),
      HtmlEl("button", << <<"type", "submit">> >>, "Go"),
      HtmlEl("input", <<>>, ""),
      HtmlEl("input", << <<"id", "q">> >>, ""),
      HtmlEl("label", << <<"for", "q">> >>, "Name"),
      HtmlEl("input", << <<"id", "a\"b">> >>, ""),
      HtmlEl("div", << <<"role", "button">> >>, "") }

\* headings and elements carrying an id, for the checks that compare the
\* elements of a document with each other
OutlineElems ==
    { HtmlEl("h1", <<>>, "Title"),
      HtmlEl("h2", <<>>, "Part"),
      HtmlEl("h3", <<>>, "Detail"),
      HtmlEl("div", << <<"id", "m">> >>, "x"),
      HtmlEl("p", << <<"id", "m">> >>, "y"),
      HtmlEl("div", << <<"id", "n">> >>, "z"),
      HtmlEl("div", << <<"id", "">> >>, "") }

\* elements carrying a role, and form controls, for the checks that look at
\* one element at a time
HtmlProbes ==
    { HtmlEl("div", << <<"role", "">> >>, "x"),
      HtmlEl("div", << <<"role", "foo">> >>, "x"),
      HtmlEl("div", << <<"role", "main">> >>, "x"),
      HtmlEl("textarea", <<>>, ""),
      HtmlEl("input", << <<"aria-label", "Name">> >>, ""),
      HtmlEl("input", << <<"type", "hidden">> >>, ""),
      HtmlEl("select", << <<"type", "hidden">> >>, "") }

HtmlRoots == { <<>>, << <<"lang", "de">> >> }

HtmlDocs(elems, n) ==
    { [kind |-> "html", norm |-> nm, root |-> r, els |-> es] :
        nm \in BOOLEAN, r \in HtmlRoots, es \in SeqsUpTo(elems, n) }

JsxEl(tag, attrs, text, nested, inLabel) ==
    [tag |-> tag, attrs |-> attrs, text |-> text, nested |-> nested,
     inLabel |-> inLabel, line |-> 1]

JsxElems ==
    { JsxEl("img", << <<"src", "a.png">> >>, "", FALSE, FALSE),
      JsxEl("img", << <<"src", "a.png">>, <<"alt", "Logo">> >>, "", FALSE, FALSE),
      JsxEl("button", <<>>, "", FALSE, FALSE),
      JsxEl("button", <<>>, "Go", FALSE, FALSE),
      JsxEl("input", <<>>, "", FALSE, FALSE),
      JsxEl("input", << <<"id", "q">> >>, "", FALSE, TRUE),
      JsxEl("input", << <<"aria-labelledby", "t">> >>, "", FALSE, FALSE),
      JsxEl("div", << <<"onClick", "{handleClick}">> >>, "", FALSE, FALSE) }

JsxProbes ==
    { JsxEl("div", << <<"role", "">> >>, "x", FALSE, FALSE),
      JsxEl("div", << <<"role", "foo">> >>, "x", FALSE, FALSE),
      JsxEl("div", << <<"role", "main">> >>, "x", FALSE, FALSE),
      JsxEl("div", << <<"role", "{id}">> >>, "x", FALSE, FALSE) }

\* elements in traversal order start on non-decreasing lines
JsxBodies(elems, n) ==
    { es \in SeqsUpTo({[e EXCEPT !.line = l] : e \in elems, l \in 1..MaxLine}, n) :
        \A i \in 1..(Len(es) - 1) : es[i].line <= es[i + 1].line }

\* a text the generator printed parses without the decorators plugin; a
\* text no parser accepts has no elements to speak of.  The elements of a
\* script file are the JSX of one function component, in one lexical scope.
JsxDocs(elems, n) ==
    { [kind |-> "jsx", parse |-> "ok", norm |-> nm, els |-> es] :
        nm \in BOOLEAN, es \in JsxBodies(elems, n) }
    \cup
    { [kind |-> "jsx", parse |-> "decorators", norm |-> FALSE, els |-> es] :
        es \in JsxBodies(elems, n) }
    \cup
    { [kind |-> "jsx", parse |-> "bad", norm |-> FALSE, els |-> <<>>] }

\* the text of a file that is neither markup nor script
PlainText == [kind |-> "text"]

(***************************************************************************)
(* The fix pipeline on one text: scan, generate fixes, apply, scan again,  *)
(* apply again                                                             *)
(***************************************************************************)
ScanThrows(d) == d.kind = "html" /\ FormLabelsThrows(d)

ScanText(d) ==
    CASE d.kind = "html" -> HtmlScan(d)
      [] d.kind = "jsx"  -> JsxScan(d)
      [] OTHER -> <<>>

FixText(d, iss) ==
    CASE d.kind = "html" -> fixHTML(d, iss)
      [] d.kind = "jsx"  -> fixJSX(d, iss)
      [] OTHER -> d

NoText == [kind |-> "unset"]

FixInit ==
    /\ doc \in HtmlDocs(HtmlElems, MaxElems) \cup HtmlDocs(OutlineElems, MaxOutline)
                \cup HtmlDocs(HtmlProbes, MaxProbes)
                \cup JsxDocs(JsxElems, MaxElems) \cup JsxDocs(JsxProbes, MaxProbes)
    /\ issues = <<>>
    /\ out1 = NoText
    /\ out2 = NoText
    /\ issues2 = <<>>
    /\ fpc = "start"

FixIdle ==
    /\ doc = NoText /\ issues = <<>> /\ out1 = NoText /\ out2 = NoText
    /\ issues2 = <<>> /\ fpc = "idle"

\* scanner.scan() followed by fixer.generateFixes(issues)
FixScan ==
    /\ fpc = "start"
    /\ IF ScanThrows(doc)
       THEN fpc' = "threw" /\ UNCHANGED issues
       ELSE /\ issues' = generateFixes(ScanText(doc), DefaultFixerConfig)
            /\ fpc' = "scanned"
    /\ UNCHANGED <<doc, out1, out2, issues2>>

\* fixHTML / fixJSX on the scanned text with the fixable issues
FixApply ==
    /\ fpc = "scanned"
    /\ out1' = FixText(doc, Fixable(issues))
    /\ fpc' = "fixed"
    /\ UNCHANGED <<doc, issues, out2, issues2>>

\* a second scan, of the fixed output
FixRescan ==
    /\ fpc = "fixed"
    /\ IF ScanThrows(out1)
       THEN fpc' = "threw" /\ UNCHANGED issues2
       ELSE /\ issues2' = generateFixes(ScanText(out1), DefaultFixerConfig)
            /\ fpc' = "rescanned"
    /\ UNCHANGED <<doc, issues, out1, out2>>

\* the same fixes applied to the already fixed output
FixReapply ==
    /\ fpc = "rescanned"
    /\ out2' = FixText(out1, Fixable(issues))
    /\ fpc' = "refixed"
    /\ UNCHANGED <<doc, issues, out1, issues2>>

FixNext == FixScan \/ FixApply \/ FixRescan \/ FixReapply


(***************************************************************************)
(* FileCache (utils/cache.ts)                                              *)
(***************************************************************************)
ScanResult(file, iss, fixed, total) ==
    [file |-> file, issues |-> iss, fixed |-> fixed, total |-> total]

\* `null`, the miss of FileCache.get
NoResult == [file |-> "null"]

\* The second one is a relative path that is also the name of the prototype
\* slot of a plain object.
CachePaths == {"/p/a.html", "__proto__"}

\* File contents the cache is asked about.  The first two are different
\* texts with the same MD5 digest.
CollisionA == "TEXTCOLLBYfGiJUETHQ4hAcKSMd5zYpgqf1YRDhkmxHkhPWptrkoyz28wnI9V0aHeAuaKnak"
CollisionB == "TEXTCOLLBYfGiJUETHQ4hEcKSMd5zYpgqf1YRDhkmxHkhPWptrkoyz28wnI9V0aHeAuaKnak"
CacheContents == {CollisionA, CollisionB, "<img src=\"a.png\">"}

\* crypto.createHash('md5').update(content).digest('hex')
hashContent(content) ==
    CASE content = CollisionA -> "faad49866e9498fc1719f5289e7a0269"
      [] content = CollisionB -> "faad49866e9498fc1719f5289e7a0269"
      [] content = "<img src=\"a.png\">" -> "257d848456f45b236c1833c2d67e31f2"

CacheResults ==
    { ScanResult("/p/a.html", <<>>, 0, 0),
      ScanResult("/p/a.html", <<Issue("duplicate-id", "error", 1, 1)>>, 0, 1) }

\* cleanup's default maxAge: 7 * 24 * 60 * 60 * 1000
DefaultMaxAge == 604800000

\* maxAge arguments of cleanup, in clock ticks
MaxAges == {0, 1, DefaultMaxAge}

EmptyMap == [p \in {} |-> NoResult]

\* this.cache.set(key, entry) / this.cache.delete(key) on the Map
MapSet(m, key, entry) ==
    [q \in DOMAIN m \cup {key} |-> IF q = key THEN entry ELSE m[q]]
MapWithout(m, keys) == [q \in DOMAIN m \ keys |-> m[q]]

\* FileCache.get(filePath, content)
get(filePath, content) ==
    IF ~enabled THEN NoResult
    ELSE IF /\ filePath \in DOMAIN cache
            /\ cache[filePath].hash = hashContent(content)
         THEN cache[filePath].result
         ELSE NoResult

NoOp == [op |-> "none"]

\* cache.json in the cache directory: missing, holding a table, or missing
\* in a directory that cannot be written
NoStore == [state |-> "missing", table |-> EmptyMap]
ReadOnlyStore == [state |-> "unwritable", table |-> EmptyMap]

\* cache.json with a damaged text: one JSON.parse rejects (a truncated
\* file), and one that is JSON but no table of entries (the text ["x"])
CorruptStates == {"unparseable", "foreign"}
CorruptStore(kind) == [state |-> kind, table |-> EmptyMap]

\* what Object.entries(["x"]) puts into the Map: key "0" with a value that
\* has no hash and no timestamp
JunkEntry == [value |-> "x"]
ForeignTable == [q \in {"0"} |-> JunkEntry]

\* the plain object persistCache fills with entries[filePath] = entry and
\* hands to JSON.stringify: the assignment to "__proto__" sets the object's
\* prototype and adds no property
ToStore(table) == [q \in DOMAIN table \ {"__proto__"} |-> table[q]]

\* persistCache: writeFileSync rewrites the whole table; when it throws the
\* catch logs a warning and the store stays as it was
persistCache(table) ==
    disk' = IF disk.state = "unwritable" THEN disk
            ELSE [state |-> "ok", table |-> ToStore(table)]

\* loadCache: the table of an existing store; nothing when the file is
\* missing or when JSON.parse throws (the catch logs a warning)
loadCache(store) ==
    CASE store.state = "ok" -> store.table
      [] store.state = "foreign" -> ForeignTable
      [] OTHER -> EmptyMap

CacheInit ==
    /\ cache = EmptyMap
    /\ disk \in {NoStore, ReadOnlyStore}
    /\ enabled \in BOOLEAN
    /\ now = 0
    /\ lastSet = [p \in CachePaths |-> NoResult]
    /\ lastOp = NoOp

CacheIdle ==
    /\ cache = EmptyMap /\ disk = NoStore /\ enabled = FALSE /\ now = 0
    /\ lastSet = [p \in CachePaths |-> NoResult] /\ lastOp = NoOp

\* FileCache.get: lastOp records the call and what it returned
Get(filePath, content) ==
    /\ lastOp' = [op |-> "get", path |-> filePath, content |-> content,
                  out |-> get(filePath, content)]
    /\ UNCHANGED <<cache, disk, enabled, now, lastSet>>

\* a set that leaves an existing entry of the path in place
SetKeepingOld(filePath, content, result) ==
    /\ IF ~enabled \/ filePath \in DOMAIN cache
       THEN UNCHANGED <<cache, disk>>
       ELSE /\ cache' = MapSet(cache, filePath,
                               [hash |-> hashContent(content), timestamp |-> now,
                                result |-> result])
            /\ persistCache(cache')
    /\ lastSet' = [lastSet EXCEPT ![filePath] = result]
    /\ lastOp' = [op |-> "set", path |-> filePath, content |-> content]
    /\ UNCHANGED <<enabled, now>>

\* FileCache.set: lastSet remembers the result of the latest set per path
Set(filePath, content, result) ==
    /\ IF ~enabled
       THEN UNCHANGED <<cache, disk>>
       ELSE /\ cache' = MapSet(cache, filePath,
                               [hash |-> hashContent(content), timestamp |-> now,
                                result |-> result])
            /\ persistCache(cache')
    /\ lastSet' = [lastSet EXCEPT ![filePath] = result]
    /\ lastOp' = [op |-> "set", path |-> filePath, content |-> content]
    /\ UNCHANGED <<enabled, now>>

\* FileCache.clear
Clear ==
    /\ cache' = EmptyMap
    /\ persistCache(cache')
    /\ lastOp' = [op |-> "clear"]
    /\ UNCHANGED <<enabled, now, lastSet>>

\* now - entry.timestamp > maxAge; with no timestamp the difference is NaN
\* and the comparison is false
IsOlder(entry, maxAge) ==
    /\ entry # JunkEntry
    /\ now - entry.timestamp > maxAge

\* a cleanup that also removes the entries exactly maxAge old
CleanupAtLeast(maxAge) ==
    /\ LET toRemove == {q \in DOMAIN cache :
                          /\ cache[q] # JunkEntry
                          /\ now - cache[q].timestamp >= maxAge}
       IN  /\ cache' = MapWithout(cache, toRemove)
           /\ IF toRemove # {} THEN persistCache(cache') ELSE UNCHANGED disk
           /\ lastOp' = [op |-> "cleanup", maxAge |-> maxAge, removed |-> toRemove]
    /\ UNCHANGED <<enabled, now, lastSet>>

\* FileCache.cleanup(maxAge): lastOp records the paths removed
Cleanup(maxAge) ==
    /\ LET toRemove == {q \in DOMAIN cache : IsOlder(cache[q], maxAge)}
       IN  /\ cache' = MapWithout(cache, toRemove)
           /\ IF toRemove # {} THEN persistCache(cache') ELSE UNCHANGED disk
           /\ lastOp' = [op |-> "cleanup", maxAge |-> maxAge, removed |-> toRemove]
    /\ UNCHANGED <<enabled, now, lastSet>>

\* new FileCache(cacheDir, enabled) on the directory of the store: the
\* constructor loads the table when the cache is enabled
Reopen ==
    /\ cache' = IF enabled THEN loadCache(disk) ELSE EmptyMap
    /\ lastOp' = [op |-> "open", store |-> disk.state]
    /\ UNCHANGED <<disk, enabled, now, lastSet>>

\* the store file is damaged behind the program's back
StoreDamaged(kind) ==
    /\ disk.state \in {"missing", "ok"}
    /\ disk' = CorruptStore(kind)
    /\ lastOp' = [op |-> "damage"]
    /\ UNCHANGED <<cache, enabled, now, lastSet>>

\* Date.now() moves on
Tick ==
    /\ now < MaxTime
    /\ now' = now + 1
    /\ UNCHANGED <<cache, disk, enabled, lastSet, lastOp>>

CacheNext ==
    \/ \E p \in CachePaths, c \in CacheContents : Get(p, c)
    \/ \E p \in CachePaths, c \in CacheContents, r \in CacheResults : Set(p, c, r)
    \/ Clear
    \/ \E a \in MaxAges : Cleanup(a)
    \/ Tick
    \/ Reopen
    \/ \E k \in CorruptStates : StoreDamaged(k)


(***************************************************************************)
(* File kinds (utils/fileReader.ts)                                        *)
(***************************************************************************)
ScanPaths == {"/p/a.html", "/p/b.tsx", "/p/c.css"}

\* the text behind the last dot of the path
FileExt(filePath) ==
    CASE filePath = "/p/a.html" -> "html"
      [] filePath = "/p/b.tsx"  -> "tsx"
      [] filePath = "/p/c.css"  -> "css"

\* /\.(html|htm)$/i and /\.(jsx|tsx|js|ts)$/i
isHTMLFile(filePath) == FileExt(filePath) \in {"html", "htm", "HTML", "HTM"}
isJSXFile(filePath) == FileExt(filePath) \in {"jsx", "tsx", "js", "ts", "JSX", "TSX", "JS", "TS"}

(***************************************************************************)
(* AccessibilityAutoFixer (index.ts)                                       *)
(***************************************************************************)
ScanHtmlElems ==
    { HtmlEl("img", << <<"src", "a.png">> >>, ""),
      HtmlEl("button", << <<"type", "submit">> >>, "Go"),
      HtmlEl("input", <<>>, ""),
      HtmlEl("input", << <<"id", "a\"b">> >>, ""),
      HtmlEl("div", << <<"role", "foo">> >>, "") }

ScanJsxElems ==
    { JsxEl("img", << <<"src", "a.png">> >>, "", FALSE, FALSE),
      JsxEl("button", <<>>, "Go", FALSE, FALSE),
      JsxEl("input", << <<"id", "q">> >>, "", FALSE, TRUE) }

\* what a file of that name may hold
TextsOf(filePath) ==
    IF isHTMLFile(filePath) THEN HtmlDocs(ScanHtmlElems, MaxScanElems)
    ELSE IF isJSXFile(filePath) THEN JsxDocs(ScanJsxElems, MaxScanElems)
    ELSE {PlainText}

\* findFiles: the matched paths, each once
FileLists ==
    { fl \in SeqsUpTo(ScanPaths, MaxFiles) :
        \A i, j \in 1..Len(fl) : i # j => fl[i] # fl[j] }

Range(fl) == {fl[i] : i \in 1..Len(fl)}

\* a scanFile that lets the parser's error escape
scanFileThrowsOnParseError(filePath, content) ==
    \/ isHTMLFile(filePath) /\ FormLabelsThrows(content)
    \/ isJSXFile(filePath) /\ ~ScannerParses(content)

\* scanFile(filePath, content)
scanFileThrows(filePath, content) == isHTMLFile(filePath) /\ FormLabelsThrows(content)

\* a scanFile that reports an issue for a file of neither kind
scanFileFlaggingUnknown(filePath, content) ==
    IF isHTMLFile(filePath) THEN HtmlScan(content)
    ELSE IF isJSXFile(filePath) THEN JsxScan(content)
    ELSE <<Issue("missing-lang-attribute", "error", 1, 0)>>

scanFile(filePath, content) ==
    IF isHTMLFile(filePath) THEN HtmlScan(content)
    ELSE IF isJSXFile(filePath) THEN JsxScan(content)
    ELSE <<>>

\* the applicator chosen by scanFiles; a file of neither kind keeps its content
applyFixesFor(filePath, content, fixableIssues) ==
    IF isHTMLFile(filePath) THEN fixHTML(content, fixableIssues)
    ELSE IF isJSXFile(filePath) THEN fixJSX(content, fixableIssues)
    ELSE content

\* fixes whose attribute really reached the element the issue was raised on
NodeAttrs(d, node) ==
    IF node = 0 THEN (IF d.kind = "html" THEN d.root ELSE <<>>) ELSE d.els[node].attrs

IsApplied(before, after, issue) ==
    /\ HasFix(issue)
    /\ ~HasAttr(NodeAttrs(before, issue.node), CodeName(issue.fix.code))
    /\ HasAttr(NodeAttrs(after, issue.node), CodeName(issue.fix.code))

AppliedCount(before, after, iss) ==
    Cardinality({i \in 1..Len(iss) : IsApplied(before, after, iss[i])})

\* the constructor: { fix: false, report: false, ...config }; the
\* performance options are kept as given (here: the documented defaults)
DefaultPerformance == [cache |-> TRUE, parallel |-> TRUE, maxConcurrency |-> 10]

\* config.autoFix as the documentation describes it, with both toggles on
\* or both off
ScanAutoFix ==
    {[generateAriaLabels |-> b, wrapInputsWithLabels |-> b] : b \in BOOLEAN}

NoCur == [content |-> NoText]

ScanInit ==
    /\ files \in FileLists
    /\ fsys \in {f \in [Range(files) -> UNION {TextsOf(p) : p \in ScanPaths}] :
                    \A p \in Range(files) : f[p] \in TextsOf(p)}
    /\ config \in {[fix |-> b, report |-> FALSE, performance |-> DefaultPerformance,
                      autoFix |-> af] : b \in BOOLEAN, af \in ScanAutoFix}
    /\ idx = 0
    /\ results = <<>>
    /\ spc = "idle"
    /\ cur = NoCur
    /\ run = 0
    /\ started = 0
    /\ finished = 0
    /\ failed = {}
    /\ applied = <<>>
    /\ writes = {}
    /\ scanLog = {}
    /\ runConfig = config
    /\ setCalls = 0

ScanIdle ==
    /\ files = <<>> /\ fsys = <<>> /\ idx = 0 /\ results = <<>> /\ spc = "off"
    /\ config = [fix |-> FALSE, report |-> FALSE, performance |-> DefaultPerformance,
                 autoFix |-> [generateAriaLabels |-> TRUE,
                              wrapInputsWithLabels |-> TRUE]]
    /\ cur = NoCur /\ run = 0 /\ started = 0 /\ finished = 0 /\ failed = {}
    /\ applied = <<>> /\ writes = {} /\ scanLog = {} /\ runConfig = config
    /\ setCalls = 0

\* the for loop moves to the next file, or scanFiles returns
NextFile ==
    /\ idx' = idx + 1
    /\ spc' = IF idx + 1 > Len(files) THEN "done" ELSE "read"
    /\ cur' = NoCur
    /\ finished' = finished + 1

\* a loop body without its try/catch: the rejection leaves scanFiles
CaughtNowhere ==
    /\ failed' = failed \cup {files[idx]}
    /\ spc' = "aborted"
    /\ cur' = NoCur
    /\ finished' = finished + 1
    /\ UNCHANGED <<idx, results, applied>>

\* catch (error) { console.error(...) }: the file yields no result
Caught ==
    /\ failed' = failed \cup {files[idx]}
    /\ NextFile
    /\ UNCHANGED <<results, applied>>

\* results.push({ file, issues, fixed, total })
Push(iss, fixedCount, total, appliedCount) ==
    /\ results' = Append(results, ScanResult(files[idx], iss, fixedCount, total))
    /\ applied' = Append(applied, appliedCount)
    /\ NextFile
    /\ UNCHANGED failed

\* scanFiles(patterns) is called; findFiles resolves to the file list.
\* runConfig keeps the configuration as it is at that moment; the
\* command-line tool makes the call once.
StartRun ==
    /\ spc \in {"idle", "done"}
    /\ run < MaxRuns
    /\ caller = "cli" => run = 0
    /\ runConfig' = config
    /\ UNCHANGED setCalls
    /\ run' = run + 1
    /\ idx' = 1
    /\ results' = <<>>
    /\ applied' = <<>>
    /\ failed' = {}
    /\ started' = 0
    /\ finished' = 0
    /\ cur' = NoCur
    /\ spc' = IF files = <<>> THEN "done" ELSE "read"
    /\ UNCHANGED <<fsys, config, files, writes, scanLog>>

\* await readFile(file) resolves
ReadOk ==
    /\ spc = "read"
    /\ started' = started + 1
    /\ cur' = [content |-> fsys[files[idx]]]
    /\ spc' = "scan"
    /\ UNCHANGED <<fsys, config, files, idx, results, run, finished, failed,
                   applied, writes, scanLog>>

\* await readFile(file) rejects
ReadFail ==
    /\ spc = "read"
    /\ started' = started + 1
    /\ Caught
    /\ UNCHANGED <<fsys, config, files, run, writes, scanLog>>

\* await this.scanFile(file, content)
ScanStep ==
    /\ spc = "scan"
    /\ IF scanFileThrows(files[idx], cur.content)
       THEN Caught /\ UNCHANGED scanLog
       ELSE /\ cur' = [content |-> cur.content,
                       issues |-> scanFile(files[idx], cur.content)]
            /\ scanLog' = scanLog \cup
                  {[run |-> run, file |-> files[idx], content |-> cur.content,
                    fix |-> config.fix]}
            /\ spc' = "fix"
            /\ UNCHANGED <<idx, results, finished, failed, applied>>
    /\ UNCHANGED <<fsys, config, files, run, started, writes>>

\* a fix step that does not look at config.fix
FixStepUnconditional ==
    /\ spc = "fix"
    /\ LET issuesWithFixes == generateFixes(cur.issues, DefaultFixerConfig)
           fixableIssues == Fixable(issuesWithFixes)
       IN  IF fixableIssues # <<>>
           THEN /\ cur' = [content |-> cur.content,
                           issues |-> cur.issues,
                           fix |-> config.fix,
                           issuesWithFixes |-> issuesWithFixes,
                           fixedContent |-> applyFixesFor(files[idx], cur.content,
                                                          fixableIssues)]
                /\ spc' = "write"
                /\ UNCHANGED <<idx, results, finished, failed, applied>>
           ELSE Push(issuesWithFixes, 0, Len(cur.issues), 0)
    /\ UNCHANGED <<fsys, config, files, run, started, writes, scanLog>>

\* generateFixes, then the applicator when config.fix is set and some issue
\* has a fix; otherwise the result is pushed with fixed = 0
FixStep ==
    /\ spc = "fix"
    /\ LET issuesWithFixes == generateFixes(cur.issues, DefaultFixerConfig)
           fixableIssues == Fixable(issuesWithFixes)
       IN  IF config.fix /\ fixableIssues # <<>>
           THEN /\ cur' = [content |-> cur.content,
                           issues |-> cur.issues,
                           fix |-> config.fix,
                           issuesWithFixes |-> issuesWithFixes,
                           fixedContent |-> applyFixesFor(files[idx], cur.content,
                                                          fixableIssues)]
                /\ spc' = "write"
                /\ UNCHANGED <<idx, results, finished, failed, applied>>
           ELSE Push(issuesWithFixes, 0, Len(cur.issues), 0)
    /\ UNCHANGED <<fsys, config, files, run, started, writes, scanLog>>

\* fixedContent === content: nothing is written
SkipWrite ==
    /\ spc = "write"
    /\ cur.fixedContent = cur.content
    /\ Push(cur.issuesWithFixes, 0, Len(cur.issues), 0)
    /\ UNCHANGED <<fsys, config, files, run, started, writes, scanLog>>

\* a write step that counts `total` on the fixed content
WriteOkTotalAfterFix ==
    /\ spc = "write"
    /\ cur.fixedContent # cur.content
    /\ fsys' = [fsys EXCEPT ![files[idx]] = cur.fixedContent]
    /\ writes' = writes \cup
          {[run |-> run, file |-> files[idx], before |-> cur.content,
            after |-> cur.fixedContent, fix |-> cur.fix,
            fixable |-> Len(Fixable(cur.issuesWithFixes))]}
    /\ Push(cur.issuesWithFixes, Len(Fixable(cur.issuesWithFixes)),
            Len(scanFile(files[idx], cur.fixedContent)),
            AppliedCount(cur.content, cur.fixedContent, cur.issuesWithFixes))
    /\ UNCHANGED <<config, files, run, started, scanLog>>

\* await writeFile(file, fixedContent) resolves; fixedCount = fixableIssues.length
WriteOk ==
    /\ spc = "write"
    /\ cur.fixedContent # cur.content
    /\ fsys' = [fsys EXCEPT ![files[idx]] = cur.fixedContent]
    /\ writes' = writes \cup
          {[run |-> run, file |-> files[idx], before |-> cur.content,
            after |-> cur.fixedContent, fix |-> cur.fix,
            fixable |-> Len(Fixable(cur.issuesWithFixes))]}
    /\ Push(cur.issuesWithFixes, Len(Fixable(cur.issuesWithFixes)), Len(cur.issues),
            AppliedCount(cur.content, cur.fixedContent, cur.issuesWithFixes))
    /\ UNCHANGED <<config, files, run, started, scanLog>>

\* await writeFile(file, fixedContent) rejects
WriteFail ==
    /\ spc = "write"
    /\ cur.fixedContent # cur.content
    /\ Caught
    /\ UNCHANGED <<fsys, config, files, run, started, writes, scanLog>>

\* setConfig({ fix }), or config.fix assigned through the object getConfig
\* returned: a library caller may do it between two scanFiles calls and
\* while a call is waiting at one of its awaits
SetConfig(b) ==
    /\ caller = "library"
    /\ spc # "exited"
    /\ setCalls < MaxSetConfig
    /\ setCalls' = setCalls + 1
    /\ config.fix # b
    /\ config' = [config EXCEPT !.fix = b]
    /\ spc' = IF spc = "done" THEN "idle" ELSE spc
    /\ UNCHANGED <<fsys, files, idx, results, cur, run, started, finished,
                   failed, applied, writes, scanLog>>

\* the steps of the loop body
RunStep ==
    \/ ReadOk
    \/ ReadFail
    \/ ScanStep
    \/ FixStep
    \/ SkipWrite
    \/ WriteOk
    \/ WriteFail

ScanNext ==
    \/ StartRun
    \/ RunStep /\ UNCHANGED <<runConfig, setCalls>>
    \/ \E b \in BOOLEAN : SetConfig(b) /\ UNCHANGED runConfig

(***************************************************************************)
(* Command-line tool (cli.ts)                                              *)
(***************************************************************************)
\* results.some(r => r.issues.some(i => i.severity === 'error'))
hasErrors(res) ==
    \E i \in 1..Len(res) : \E k \in 1..Len(res[i].issues) :
        res[i].issues[k].severity = "error"

\* the action after its one scanFiles call has returned: process.exit(1)
\* when hasErrors and fix is off, otherwise the process ends with status 0
CliExit ==
    /\ caller = "cli"
    /\ spc = "done"
    /\ run = 1
    /\ exitCode' = IF hasErrors(results) /\ ~config.fix THEN 1 ELSE 0
    /\ spc' = "exited"
    /\ UNCHANGED <<fsys, config, files, idx, results, cur, run, started, finished,
                   failed, applied, writes, scanLog, runConfig, setCalls, caller>>

(***************************************************************************)
(* Specifications                                                          *)
(***************************************************************************)
\* the command-line tool has not exited
CliIdle == caller = "library" /\ exitCode = -1

\* who drives the AccessibilityAutoFixer: the command-line tool or a program
\* using the library
CliInit == caller \in {"cli", "library"} /\ exitCode = -1

\* the fix pipeline on one text
(***************************************************************************)
(* useAccessibility (react/hooks/useAccessibility.ts)                      *)
(***************************************************************************)
\* setTimeout(performCheck, 100) of the effect; the clock of the model moves
\* in steps of this delay
MountDelay == 100

\* debounceMs = 300, the default of the option
DefaultDebounceMs == 300

\* options of the hook; checkInterval 0 stands for the option left out
HookOptions ==
    [enabled : BOOLEAN, checkOnMount : BOOLEAN, checkInterval : {0, 500},
     debounceMs : {200, DefaultDebounceMs}]

\* a timer reference holding null, or a timer that has fired
NoTimer == [armed |-> FALSE]

\* the effect body, run after the render with options o at time t
EffectInterval(o, t) ==
    IF o.enabled /\ o.checkInterval > 0
    THEN [due |-> t + o.checkInterval] ELSE NoTimer
EffectMount(o, t) ==
    IF o.enabled /\ o.checkOnMount THEN {t + MountDelay} ELSE {}

\* performCheck of a render in which `enabled` had the value en: it returns
\* early unless the hook is enabled and ref.current is set; otherwise it
\* inspects the element and calls setIssues
performCheck(en, by) ==
    checks' = IF en /\ mounted
              THEN checks \cup {[at |-> clock, by |-> by]}
              ELSE checks

\* a timer due now must fire before the clock moves on
TimerDue ==
    \/ debounceRef # NoTimer /\ debounceRef.due = clock
    \/ intervalRef # NoTimer /\ intervalRef.due = clock
    \/ clock \in mountTimers

HookInit ==
    /\ clock = 0
    /\ mounted = TRUE
    /\ options \in HookOptions
    /\ debounceRef = NoTimer
    /\ intervalRef = EffectInterval(options, 0)
    /\ mountTimers = EffectMount(options, 0)
    /\ calls = {}
    /\ checks = {}
    /\ renders = 0

HookIdle ==
    /\ clock = 0 /\ mounted = FALSE
    /\ options = [enabled |-> FALSE, checkOnMount |-> FALSE, checkInterval |-> 0,
                  debounceMs |-> DefaultDebounceMs]
    /\ debounceRef = NoTimer /\ intervalRef = NoTimer /\ mountTimers = {}
    /\ calls = {} /\ checks = {} /\ renders = 0

\* checkAccessibility(): clearTimeout of the pending timer, then a new timer
\* whose callback is the performCheck of the current render
checkAccessibility ==
    /\ mounted
    /\ Cardinality(calls) < MaxCalls
    /\ debounceRef' = [due |-> clock + options.debounceMs, enabled |-> options.enabled]
    /\ calls' = calls \cup {[at |-> clock, enabled |-> options.enabled]}
    /\ UNCHANGED <<clock, mounted, options, intervalRef, mountTimers, checks, renders>>

\* the debounce timer fires
DebounceFires ==
    /\ debounceRef # NoTimer
    /\ debounceRef.due = clock
    /\ performCheck(debounceRef.enabled, "debounce")
    /\ debounceRef' = NoTimer
    /\ UNCHANGED <<clock, mounted, options, intervalRef, mountTimers, calls, renders>>

\* the interval timer fires and is due again one interval later
IntervalFires ==
    /\ intervalRef # NoTimer
    /\ intervalRef.due = clock
    /\ performCheck(options.enabled, "interval")
    /\ intervalRef' = [due |-> clock + options.checkInterval]
    /\ UNCHANGED <<clock, mounted, options, debounceRef, mountTimers, calls, renders>>

\* the timer of setTimeout(performCheck, 100) fires: the effect set it in
\* a render with the hook enabled, and no cleanup clears it
MountTimerFires ==
    /\ clock \in mountTimers
    /\ performCheck(TRUE, "mount")
    /\ mountTimers' = mountTimers \ {clock}
    /\ UNCHANGED <<clock, mounted, options, debounceRef, intervalRef, calls, renders>>

\* the cleanup the effect returned: none when the hook was disabled
CleanedDebounce == IF options.enabled THEN NoTimer ELSE debounceRef

\* the component renders with other values of enabled, checkOnMount or
\* checkInterval: the cleanup of the previous effect runs, then the effect
Rerender(o) ==
    /\ mounted
    /\ o.debounceMs = options.debounceMs
    /\ o # options
    /\ renders < MaxRenders
    /\ renders' = renders + 1
    /\ options' = o
    /\ debounceRef' = CleanedDebounce
    /\ intervalRef' = EffectInterval(o, clock)
    /\ mountTimers' = mountTimers \cup EffectMount(o, clock)
    /\ UNCHANGED <<clock, mounted, calls, checks>>

\* the component unmounts: the cleanup runs and ref.current becomes null
Unmount ==
    /\ mounted
    /\ mounted' = FALSE
    /\ debounceRef' = CleanedDebounce
    /\ intervalRef' = NoTimer
    /\ UNCHANGED <<clock, options, mountTimers, calls, checks, renders>>

\* time passes
HookTick ==
    /\ ~TimerDue
    /\ clock < MaxClock * MountDelay
    /\ clock' = clock + MountDelay
    /\ UNCHANGED <<mounted, options, debounceRef, intervalRef, mountTimers,
                   calls, checks, renders>>

HookNext ==
    \/ checkAccessibility
    \/ DebounceFires
    \/ IntervalFires
    \/ MountTimerFires
    \/ \E o \in HookOptions : Rerender(o)
    \/ Unmount
    \/ HookTick


Init == FixInit /\ CacheIdle /\ ScanIdle /\ GenIdle /\ CliIdle /\ HookIdle
Next == FixNext /\ UNCHANGED <<cacheVars, scanVars, genVars, cliVars, hookVars>>
Spec == Init /\ [][Next]_vars

\* one FileCache instance
InitCache == CacheInit /\ FixIdle /\ ScanIdle /\ GenIdle /\ CliIdle /\ HookIdle
NextCache == CacheNext /\ UNCHANGED <<fixVars, scanVars, genVars, cliVars, hookVars>>
SpecCache == InitCache /\ [][NextCache]_vars

\* scanFiles calls on one AccessibilityAutoFixer
InitScan == ScanInit /\ FixIdle /\ CacheIdle /\ GenIdle /\ CliInit /\ HookIdle
NextScan ==
    \/ ScanNext /\ UNCHANGED <<fixVars, cacheVars, genVars, cliVars, hookVars>>
    \/ CliExit /\ UNCHANGED <<fixVars, cacheVars, genVars, hookVars>>
SpecScan == InitScan /\ [][NextScan]_vars

\* one generateFixes call, and the same call again
InitGen == GenInit /\ FixIdle /\ CacheIdle /\ ScanIdle /\ CliIdle /\ HookIdle
NextGen == GenNext /\ UNCHANGED <<fixVars, cacheVars, scanVars, cliVars, hookVars>>
SpecGen == InitGen /\ [][NextGen]_vars

\* the hook of one mounted component
InitHook == HookInit /\ FixIdle /\ CacheIdle /\ ScanIdle /\ GenIdle /\ CliIdle
NextHook == HookNext /\ UNCHANGED <<fixVars, cacheVars, scanVars, genVars, cliVars>>
SpecHook == InitHook /\ [][NextHook]_vars


(***************************************************************************)
(* Properties of the fix pipeline (specification Spec)                     *)
(***************************************************************************)
FixableTypes ==
    {"missing-alt-text", "missing-button-type", "missing-lang-attribute",
     "missing-aria-label", "missing-form-label"}

FixGenerated(iss, type) == \E i \in 1..Len(iss) : iss[i].type = type /\ HasFix(iss[i])

\* C2: fix convergence.  After scan, generateFixes and fixHTML / fixJSX with
\* the default configuration, the second scan reports no issue of a type a
\* fix was generated for, and no more fixable-type issues than the first.
C2_FixConvergence ==
    fpc \in {"rescanned", "refixed"} =>
        /\ \A type \in FixableTypes :
              FixGenerated(issues, type) => CountIf(issues2, {type}) = 0
        /\ CountIf(issues2, FixableTypes) <= CountIf(issues, FixableTypes)

NoAttrTwice(attrs) ==
    \A k, m \in 1..Len(attrs) : attrs[k][1] = attrs[m][1] => k = m

\* C3: applying the same fixes to the already fixed text changes nothing,
\* for markup documents and for script files, and no element of the result
\* (nor the <html> root) carries an attribute twice.
C3_FixIdempotent ==
    fpc = "refixed" =>
        /\ out2 = out1
        /\ \A i \in 1..Len(out2.els) : NoAttrTwice(out2.els[i].attrs)
        /\ out2.kind = "html" => NoAttrTwice(out2.root)

\* C3 witness: a markup document whose root got lang="en" and whose elements
\* were changed by the first pass has gone through the second pass.
C3_Witness ==
    /\ fpc = "refixed"
    /\ doc.kind = "html"
    /\ ~HasAttr(doc.root, "lang")
    /\ GetAttr(out2.root, "lang") = "en"
    /\ out1.els # doc.els

\* C10: when the syntax-tree transformation of fixJSX throws, the result of
\* fixJSX is that of the textual fallback fixJSXLegacy.
C10_FallbackApplied ==
    ( /\ fpc \in {"fixed", "rescanned", "refixed"}
      /\ doc.kind = "jsx"
      /\ Fixable(issues) # <<>>
      /\ TransformBody(doc, Fixable(issues)).threw )
    => out1 = fixJSXLegacy(doc, Fixable(issues))

\* C11: a fix applicator given no fix returns its input byte for byte: when
\* no issue of the text carries a fix, the output of fixHTML / fixJSX is the
\* text that went in.
C11_ZeroFixesIdentity ==
    (fpc \in {"fixed", "rescanned", "refixed"} /\ Fixable(issues) = <<>>)
    => out1 = doc

\* the issues of a type and severity raised on an element
IssuesAt(iss, type, severity, node) ==
    {k \in 1..Len(iss) :
        iss[k].type = type /\ iss[k].severity = severity /\ iss[k].node = node}

IssuesOfType(iss, type) == {k \in 1..Len(iss) : iss[k].type = type}

IsBareButton(d, i) ==
    /\ d.els[i].tag = "button"
    /\ d.els[i].attrs = <<>>
    /\ d.els[i].text = ""
    /\ d.kind = "jsx" => ~d.els[i].nested

\* C16: a button without attributes and without text gets a
\* missing-button-type warning and a missing-aria-label warning; after the
\* fix with the default configuration it has type="button" and an aria-label
\* attribute, and a second fix pass changes nothing.
C16_BareButtonFixed ==
    (fpc \in {"fixed", "rescanned", "refixed"} /\ doc.kind \in {"html", "jsx"}) =>
        \A i \in 1..Len(doc.els) :
            IsBareButton(doc, i) =>
                /\ IssuesAt(issues, "missing-button-type", "warning", i) # {}
                /\ IssuesAt(issues, "missing-aria-label", "warning", i) # {}
                /\ GetAttr(out1.els[i].attrs, "type") = "button"
                /\ HasAttr(out1.els[i].attrs, "aria-label")
                /\ fpc = "refixed" => out2 = out1

\* C17: scanning yields exactly one missing-alt-text error for each image
\* without an alt attribute and none for any other element; after the fix
\* every flagged image has alt="" and an image that had an alt attribute has
\* its attributes unchanged.
C17_AltTextFixed ==
    (fpc \in {"fixed", "rescanned", "refixed"} /\ doc.kind \in {"html", "jsx"}) =>
        /\ \A k \in IssuesOfType(issues, "missing-alt-text") :
              issues[k].severity = "error" /\ issues[k].node \in 1..Len(doc.els)
        /\ \A i \in 1..Len(doc.els) :
              LET flagged == IssuesAt(issues, "missing-alt-text", "error", i)
                  isImg == doc.els[i].tag = "img"
                  hadAlt == HasAttr(doc.els[i].attrs, "alt")
              IN  /\ Cardinality(flagged) = IF isImg /\ ~hadAlt THEN 1 ELSE 0
                  /\ (isImg /\ ~hadAlt) =>
                        ( /\ HasAttr(out1.els[i].attrs, "alt")
                          /\ GetAttr(out1.els[i].attrs, "alt") = "" )
                  /\ (isImg /\ hadAlt) => out1.els[i].attrs = doc.els[i].attrs

\* the ids of a markup document (an empty id attribute gives an element no
\* id) and the elements carrying one
IdValues(d) == {GetAttr(d.els[i].attrs, "id") : i \in 1..Len(d.els)} \ {None, ""}
Carriers(d, v) == {i \in 1..Len(d.els) : GetAttr(d.els[i].attrs, "id") = v}

\* C18: in a markup document, an id carried by N >= 2 elements gets exactly N
\* duplicate-id errors, one on each of these elements; an id carried by one
\* element gets none, and no other duplicate-id issue is reported.
C18_DuplicateIdCount ==
    (fpc \in {"scanned", "fixed", "rescanned", "refixed"} /\ doc.kind = "html") =>
        /\ \A v \in IdValues(doc) :
              LET N == Cardinality(Carriers(doc, v)) IN
              \A i \in Carriers(doc, v) :
                  Cardinality(IssuesAt(issues, "duplicate-id", "error", i))
                      = IF N >= 2 THEN 1 ELSE 0
        /\ \A k \in IssuesOfType(issues, "duplicate-id") :
              /\ issues[k].severity = "error"
              /\ \E v \in IdValues(doc) : issues[k].node \in Carriers(doc, v)

\* C18 witness: a scanned markup document in which two elements share an id
\* and a third element carries an id of its own.
C18_Witness ==
    /\ fpc = "scanned"
    /\ doc.kind = "html"
    /\ Len(doc.els) = 3
    /\ \E v, w \in IdValues(doc) :
          Cardinality(Carriers(doc, v)) = 2 /\ Cardinality(Carriers(doc, w)) = 1
    /\ Cardinality(IssuesOfType(issues, "duplicate-id")) = 2

\* the headings of a markup document and, for a heading, the one before it
Headings(d) == {i \in 1..Len(d.els) : d.els[i].tag \in HeadingTags}
HeadingsBefore(d, i) == {j \in Headings(d) : j < i}
PrecedingHeading(d, i) ==
    CHOOSE j \in HeadingsBefore(d, i) : \A m \in HeadingsBefore(d, i) : m <= j

SkipsLevel(d, i) ==
    /\ HeadingsBefore(d, i) # {}
    /\ HeadingLevel(d.els[i].tag) > HeadingLevel(d.els[PrecedingHeading(d, i)].tag) + 1

\* C19: the markup scanner raises one missing-heading-hierarchy warning on
\* exactly the headings whose level is more than one above the level of the
\* heading before them; the first heading gets none, and no other element
\* gets one.
C19_HeadingHierarchy ==
    (fpc \in {"scanned", "fixed", "rescanned", "refixed"} /\ doc.kind = "html") =>
        /\ \A i \in Headings(doc) :
              Cardinality(IssuesAt(issues, "missing-heading-hierarchy", "warning", i))
                  = IF SkipsLevel(doc, i) THEN 1 ELSE 0
        /\ \A k \in IssuesOfType(issues, "missing-heading-hierarchy") :
              issues[k].severity = "warning" /\ issues[k].node \in Headings(doc)

\* C19 witness: a scanned document h2, h1, h3 with its one warning on the h3.
C19_Witness ==
    /\ fpc = "scanned"
    /\ doc.kind = "html"
    /\ Len(doc.els) = 3
    /\ doc.els[1].tag = "h2" /\ doc.els[2].tag = "h1" /\ doc.els[3].tag = "h3"
    /\ IssuesOfType(issues, "missing-heading-hierarchy")
          = IssuesAt(issues, "missing-heading-hierarchy", "warning", 3)
    /\ Cardinality(IssuesOfType(issues, "missing-heading-hierarchy")) = 1

\* C26: the syntax-tree applicator changes nothing of an element that no
\* applied issue was reported for, whatever else starts on its line.
C26_OnlyReportedElement ==
    ( /\ fpc \in {"fixed", "rescanned", "refixed"}
      /\ doc.kind = "jsx"
      /\ TransformerParses(doc) )
    => \A i \in 1..Len(doc.els) :
          (\A k \in 1..Len(issues) : HasFix(issues[k]) => issues[k].node # i)
          => out1.els[i] = doc.els[i]

\* C27: in a script file the scanner accepts, every element whose literal
\* id is also the literal id of another element of the same scope carries a
\* duplicate-id error.
C27_JsxDuplicateId ==
    ( /\ fpc \in {"scanned", "fixed", "rescanned", "refixed"}
      /\ doc.kind = "jsx"
      /\ ScannerParses(doc) )
    => \A i, j \in 1..Len(doc.els) :
          ( /\ i # j
            /\ IsStringLiteral(GetAttr(doc.els[i].attrs, "id"))
            /\ GetAttr(doc.els[i].attrs, "id") = GetAttr(doc.els[j].attrs, "id") )
          => IssuesAt(issues, "duplicate-id", "error", i) # {}

\* the literal value of an element's role attribute is not a valid role
HasInvalidRole(d, i) ==
    LET role == GetAttr(d.els[i].attrs, "role") IN
    /\ role # None
    /\ d.kind = "jsx" => IsStringLiteral(role)
    /\ role \notin ValidRoles

\* C28: in a markup document as in a script file, an element carries an
\* invalid-role error exactly when the literal value of its role attribute,
\* the empty string included, is not in the set of valid roles.
C28_SameRolePredicate ==
    ( /\ fpc \in {"scanned", "fixed", "rescanned", "refixed"}
      /\ doc.kind = "jsx" => ScannerParses(doc) )
    => \A i \in 1..Len(doc.els) :
          (IssuesAt(issues, "invalid-role", "error", i) # {}) <=> HasInvalidRole(doc, i)

\* a form control of a markup document that nothing labels
IsUnlabelledControl(d, i) ==
    LET e  == d.els[i]
        id == GetAttr(e.attrs, "id")
    IN  /\ e.tag \in FormTags
        /\ ~(id # None /\ HasLabelFor(d, id))
        /\ ~HasAttr(e.attrs, "aria-label")
        /\ ~HasAttr(e.attrs, "aria-labelledby")
        /\ ~(e.tag = "input" /\ GetAttr(e.attrs, "type") = "hidden")

\* C29: the scan of a markup document ends, and an element carries a
\* missing-form-label error exactly when it is an input, textarea or select
\* without a label[for] naming its id, without aria-label and
\* aria-labelledby, and not an input of type hidden.
C29_FormLabelExactly ==
    (doc.kind = "html" /\ fpc # "start")
    => /\ fpc # "threw"
       /\ \A i \in 1..Len(doc.els) :
             (IssuesAt(issues, "missing-form-label", "error", i) # {})
                <=> IsUnlabelledControl(doc, i)

(***************************************************************************)
(* Properties of the file cache (specification SpecCache)                  *)
(***************************************************************************)
\* C6: on an enabled cache, a get that directly follows set(path, content,
\* result) returns result when asked with the same content and none when
\* asked with any different content.
C6_SetThenGet ==
    [][ \A p \in CachePaths, c \in CacheContents :
          ( /\ enabled
            /\ lastOp.op = "set"
            /\ lastOp.path = p
            /\ Get(p, c) )
          => lastOp'.out = IF c = lastOp.content THEN lastSet[p] ELSE NoResult
      ]_vars

\* C7: after any sequence of set, clear and cleanup, get returns a result
\* exactly when an entry for the path is present whose stored hash is the
\* hash of the supplied content, and that result is the one passed to the
\* most recent set for the path; every other get is a miss.
C7_NoStaleHit ==
    [][ \A p \in CachePaths, c \in CacheContents :
          Get(p, c) =>
            /\ (lastOp'.out # NoResult) <=>
                  ( /\ p \in DOMAIN cache
                    /\ cache[p].hash = hashContent(c) )
            /\ (lastOp'.out # NoResult) => lastOp'.out = lastSet[p]
      ]_vars

\* C7 witness: a get hit on a path that was set, after time has passed and
\* while the other path has no entry.
C7_Witness ==
    /\ lastOp.op = "get"
    /\ lastOp.out # NoResult
    /\ now > 0
    /\ DOMAIN cache = {lastOp.path}

\* C22: after every set on an enabled cache the entry of the path holds
\* the result just passed, and the persisted store is a readable table with
\* exactly the entries of the in-memory table, so a FileCache opened on the
\* directory would load the same table.
C22_SetPersistsTable ==
    (enabled /\ lastOp.op = "set") =>
        /\ lastOp.path \in DOMAIN cache
        /\ cache[lastOp.path].result = lastSet[lastOp.path]
        /\ disk.state = "ok"
        /\ disk.table = cache
        /\ loadCache(disk) = cache

\* C23: a FileCache constructed over a missing or corrupt store starts
\* with an empty table.
C23_CorruptStoreStartsEmpty ==
    [][ (Reopen /\ disk.state \in CorruptStates \cup {"missing"})
          => cache' = EmptyMap ]_vars

\* C24: cleanup(maxAge) removes exactly the entries whose timestamp lies
\* more than maxAge before the current time and leaves every other entry
\* as it was, whatever its hash.
C24_CleanupByAge ==
    [][ \A a \in MaxAges :
          Cleanup(a) =>
            /\ DOMAIN cache' \subseteq DOMAIN cache
            /\ \A q \in DOMAIN cache :
                  /\ (q \notin DOMAIN cache') <=>
                        ( /\ cache[q] # JunkEntry
                          /\ now - cache[q].timestamp > a )
                  /\ q \in DOMAIN cache' => cache'[q] = cache[q]
      ]_vars

\* C24 witness: a cleanup has removed one entry and kept a younger one.
C24_Witness ==
    /\ lastOp.op = "cleanup"
    /\ lastOp.removed # {}
    /\ \E q \in DOMAIN cache :
          cache[q] # JunkEntry /\ now - cache[q].timestamp = lastOp.maxAge

(***************************************************************************)
(* Properties of the orchestrator (specification SpecScan)                 *)
(***************************************************************************)
\* C1: with fix enabled, the `fixed` count of every result equals the number
\* of fixes that really reached the file's content.
C1_FixedCountsApplied ==
    \A i \in 1..Len(results) : results[i].fixed = applied[i]

ResultsFor(f) == {i \in 1..Len(results) : results[i].file = f}

\* C4: a file whose processing fails is left out of the results and never
\* aborts the run; every other file of the list gets exactly one result.
C4_FailureIsolated ==
    /\ spc # "aborted"
    /\ spc = "done" =>
          \A f \in Range(files) :
              Cardinality(ResultsFor(f)) = IF f \in failed THEN 0 ELSE 1

\* C4 witness: a run has returned in which a file failed and a later file of
\* the list got its result.
C4_Witness ==
    /\ spc = "done"
    /\ \E i, j \in 1..Len(files) :
          i < j /\ files[i] \in failed /\ ResultsFor(files[j]) # {}

\* C5: every write-back happened with fix enabled, for a file with at least
\* one issue carrying a fix, and with an output that differs from the
\* content read; in particular nothing is written with fix disabled.
C5_WriteOnlyChanged ==
    \A w \in writes : w.fix /\ w.fixable > 0 /\ w.after # w.before

\* C5 witness: one file was written back and another, with fix enabled and a
\* fixable issue but an unchanged output, was not.
C5_Witness ==
    /\ writes # {}
    /\ \E i \in 1..Len(results) :
          /\ FixGenerated(results[i].issues, "missing-form-label")
          /\ config.fix
          /\ \A w \in writes : w.file # results[i].file

\* C8: with caching on and fix disabled, a file whose content is unchanged
\* since an earlier fix-disabled run scanned it is answered from the cache:
\* it is not scanned again.
C8_CacheHitSkipsScan ==
    \A a, b \in scanLog :
        ( /\ config.performance.cache
          /\ a.file = b.file
          /\ a.content = b.content
          /\ ~a.fix /\ ~b.fix )
        => a.run = b.run

\* C9: with parallel mode on and more than one file queued, files go through
\* a pool: by the time a first file is finished a second one is in flight,
\* and never more than maxConcurrency files are in flight.
C9_BoundedPool ==
    /\ started - finished <= config.performance.maxConcurrency
    /\ ( /\ config.performance.parallel
         /\ config.performance.maxConcurrency > 1
         /\ Len(files) > 1
         /\ finished >= 1 )
       => started >= 2

\* C13: the autoFix toggles given to AccessibilityAutoFixer are honoured:
\* with generateAriaLabels false no missing-aria-label issue of a result
\* carries a fix, with wrapInputsWithLabels false no missing-form-label
\* issue does, and no write-back adds an aria-label then.
C13_TogglesHonoured ==
    /\ \A i \in 1..Len(results) : \A k \in 1..Len(results[i].issues) :
          LET issue == results[i].issues[k] IN
          /\ (issue.type = "missing-aria-label" /\ ~config.autoFix.generateAriaLabels)
                => ~HasFix(issue)
          /\ (issue.type = "missing-form-label" /\ ~config.autoFix.wrapInputsWithLabels)
                => ~HasFix(issue)
    /\ \A w \in writes :
          (~config.autoFix.generateAriaLabels /\ ~config.autoFix.wrapInputsWithLabels)
          => \A n \in 1..Len(w.after.els) :
                HasAttr(w.after.els[n].attrs, "aria-label")
                  => HasAttr(w.before.els[n].attrs, "aria-label")

\* C14: in every result total >= fixed, and total is the number of issues
\* the scan found before fixing, which are the issues the result lists.
C14_TotalAtLeastFixed ==
    \A i \in 1..Len(results) :
        /\ results[i].total >= results[i].fixed
        /\ results[i].total = Len(results[i].issues)

\* C14 witness: a result of a fixing run counts some issues as fixed and
\* more issues in total.
C14_Witness ==
    \E i \in 1..Len(results) :
        results[i].fixed >= 1 /\ results[i].total > results[i].fixed

\* C15: scanning a script file whose text does not parse does not throw and
\* yields no issue, and the file then gets a result with zero issues.
C15_ParseFailureNoIssues ==
    [][ ( /\ spc \in {"scan", "fix"}
          /\ spc' # spc
          /\ isJSXFile(files[idx])
          /\ ~ScannerParses(cur.content) )
        => /\ failed' = failed
           /\ spc = "scan" => (spc' = "fix" /\ cur'.issues = <<>>)
           /\ spc = "fix" =>
                 results' = Append(results, ScanResult(files[idx], <<>>, 0, 0))
      ]_vars

\* C15 witness: a run has returned with a zero-issue result for a script
\* file whose text no parser accepts, after an earlier file of the list.
C15_Witness ==
    /\ spc = "done"
    /\ \E i \in 2..Len(results) :
          /\ isJSXFile(results[i].file)
          /\ ~ScannerParses(fsys[results[i].file])
          /\ results[i].issues = <<>>

\* C21: a file that is neither a markup document nor a script file gets a
\* result with no issues, total 0 and fixed 0, and it is never written, fix
\* enabled or not.
C21_UnscannableKind ==
    /\ \A i \in 1..Len(results) :
          (~isHTMLFile(results[i].file) /\ ~isJSXFile(results[i].file)) =>
              results[i] = ScanResult(results[i].file, <<>>, 0, 0)
    /\ \A w \in writes : isHTMLFile(w.file) \/ isJSXFile(w.file)
    /\ \A f \in Range(files) :
          (~isHTMLFile(f) /\ ~isJSXFile(f)) => fsys[f] = PlainText

\* C21 witness: a run with fix enabled has returned, it wrote a file and it
\* gave a file of neither kind its result.
C21_Witness ==
    /\ spc = "done"
    /\ config.fix
    /\ writes # {}
    /\ \E i \in 1..Len(results) :
          ~isHTMLFile(results[i].file) /\ ~isJSXFile(results[i].file)

\* C25: the configuration a scanFiles run began with decides how every file
\* of the run is processed: a file goes on to be fixed and written exactly
\* when fix was enabled at the start of the run and the file has an issue
\* with a fix, whatever setConfig did meanwhile.
C25_ConfigFrozenInRun ==
    [][ (spc = "fix" /\ spc' # "fix")
        => ( spc' = "write"
             <=> ( /\ runConfig.fix
                   /\ Fixable(generateFixes(cur.issues, DefaultFixerConfig)) # <<>> ) )
      ]_vars

\* an error-severity issue of the results that the run did not fix: it has
\* no fix, or the attribute of its fix is not on its element in the file
ErrorLeft ==
    \E i \in 1..Len(results) : \E k \in 1..Len(results[i].issues) :
        LET issue == results[i].issues[k] IN
        /\ issue.severity = "error"
        /\ \/ ~HasFix(issue)
           \/ ~HasAttr(NodeAttrs(fsys[results[i].file], issue.node),
                       CodeName(issue.fix.code))

\* C20: the command-line tool exits with status 1 exactly when error-severity
\* issues were found and not fixed, and with status 0 otherwise.
C20_ExitCode ==
    spc = "exited" => (exitCode = 1 <=> ErrorLeft)

(***************************************************************************)
(* Properties of the hook (specification SpecHook)                         *)
(***************************************************************************)
\* the time of the latest checkAccessibility call
LastCallAt == CHOOSE t \in {c.at : c \in calls} : \A c \in calls : c.at <= t

\* C30: on a mounted, enabled hook, once debounceMs have passed since the
\* last checkAccessibility call (made with the hook enabled), the burst that
\* call ended has run one check, debounceMs after that call, and every
\* debounced check ran debounceMs after a call no other call followed
\* within that time.
C30_BurstGivesOneCheck ==
    ( /\ calls # {}
      /\ mounted
      /\ options.enabled
      /\ \A c \in calls : c.at = LastCallAt => c.enabled
      /\ clock > LastCallAt + options.debounceMs )
    => /\ [at |-> LastCallAt + options.debounceMs, by |-> "debounce"] \in checks
       /\ \A k \in checks :
             k.by = "debounce" =>
                /\ \E c \in calls : c.at = k.at - options.debounceMs
                /\ \A c \in calls : ~(k.at - options.debounceMs < c.at /\ c.at < k.at)

(***************************************************************************)
(* Properties of the fix generator (specification SpecGen)                 *)
(***************************************************************************)
AlwaysFixedTypes ==
    {"missing-alt-text", "missing-button-type", "missing-lang-attribute"}

\* the toggle as documented: on unless it is given as false
ToggleOn(cfg, toggle) == IF toggle \in DOMAIN cfg THEN cfg[toggle] ELSE TRUE

PolicyGivesFix(type, cfg) ==
    \/ type \in AlwaysFixedTypes
    \/ type = "missing-aria-label" /\ ToggleOn(cfg, "generateAriaLabels")
    \/ type = "missing-form-label" /\ ToggleOn(cfg, "wrapInputsWithLabels")

====
